---- MODULE Spec2Model ----
(***************************************************************************)
(* Trending / ranking resolution, the TrendingArticles refresh cycle, the  *)
(* natural-language query pipeline and the Redis cache in front of them.   *)
(*                                                                         *)
(* Conventions of the model                                                *)
(*   - time is in seconds; coordinates are in millidegrees (1/1000 deg);   *)
(*   - real-valued SQL expressions are evaluated in fixed point: EXP at a  *)
(*     scale of 10^4 with the exponent resolved to 1/256, trending_score   *)
(*     at a scale of 10^3;                                                 *)
(*   - an article is identified by its id (a uuid, here a small integer);  *)
(*     the columns copied by formatArticles are immutable, so a formatted  *)
(*     article is represented by its id;                                   *)
(*   - rows that tie in an ORDER BY come back in id order (the store's     *)
(*     order for a fixed table is deterministic but not contractual).      *)
(***************************************************************************)
EXTENDS Integers, Sequences, FiniteSets, TLC

VARIABLES
    now,        \* wall clock (NOW(), Date.now()), seconds
    articles,   \* table "Article": id -> row
    events,     \* table "UserEvent": append-only sequence of rows
    view,       \* committed rows of the materialized view "TrendingArticles"
    viewMeta,   \* history of the committed snapshot: [epoch, at, nev]
    prevSnap,   \* history: the snapshot committed before the current one
    refresh,    \* the REFRESH MATERIALIZED VIEW CONCURRENTLY transaction
    cron,       \* pg_cron job refresh-trending-articles: [last, outcome]
    cache,      \* Redis keyspace: key -> [value, expiresAt, ...]
    redisUp,    \* whether the Redis server answers
    treq,       \* NewsService.getTrending calls in flight, per request slot
    qreq,       \* NewsService.processNaturalLanguageQuery call in flight
    ereq,       \* the last NewsService.createEvent call: its articleId and outcome
    served,     \* history: the first getTrending answer given since the last commit
    creq        \* direct calls of the cache provider: the last set per key, the last get

vars == <<now, articles, events, view, viewMeta, prevSnap, refresh, cron, cache,
          redisUp, treq, qreq, ereq, served, creq>>

dbVars == <<articles, events, view, viewMeta, prevSnap, refresh, cron>>

-----------------------------------------------------------------------------
(* Bounds of the model                                                     *)

\* clock advances explored per behaviour
MaxTicks == 3
\* UserEvent rows inserted per behaviour
MaxEvents == 2

-----------------------------------------------------------------------------
(* Program constants                                                       *)

CronPeriod == 300
WindowSeconds == 86400
DecayScaleSeconds == 43200
DistanceScaleMeters == 50000
TrendingTTL == 300
QueryTTL == 3600
SummaryTTL == 86400
QueryTake == 5
GeoPrecision == 2

\* a NULL geography value (column "location" is nullable)
NoLocation == [isNull |-> TRUE, lat |-> 0, lon |-> 0]
Point(lat, lon) == [isNull |-> FALSE, lat |-> lat, lon |-> lon]

-----------------------------------------------------------------------------
(* Arithmetic helpers                                                      *)

Abs(x) == IF x < 0 THEN -x ELSE x

RECURSIVE SqrtSearch(_, _, _)
\* largest r in lo..hi with r*r <= n
SqrtSearch(n, lo, hi) ==
    IF lo >= hi THEN lo
    ELSE LET mid == (lo + hi + 1) \div 2
         IN IF mid * mid <= n THEN SqrtSearch(n, mid, hi) ELSE SqrtSearch(n, lo, mid - 1)

ISqrt(n) == SqrtSearch(n, 0, 40000)

RECURSIVE PowE4(_, _)
\* b^k for a factor b at scale 10^4
PowE4(b, k) ==
    IF k = 0 THEN 10000
    ELSE IF k % 2 = 0 THEN LET h == PowE4(b, k \div 2) IN (h * h) \div 10000
    ELSE (b * PowE4(b, k - 1)) \div 10000

\* EXP(-n/d) at scale 10^4, the exponent cut to a multiple of 1/256
\* (9961 = 10^4 * e^(-1/256))
ExpNegE4(n, d) == PowE4(9961, (256 * n) \div d)

RECURSIVE SumSeq(_)
SumSeq(s) == IF s = <<>> THEN 0 ELSE Head(s) + SumSeq(Tail(s))

-----------------------------------------------------------------------------
(* Geo Bucketer: src/utils/geo.ts                                          *)

\* Number.prototype.toFixed(2) of x/1000: the sign is printed whenever x < 0,
\* also when the digits round to 0.00 ("-0.00"); digits round half away from
\* zero.
ToFixed(x, precision) ==
    [neg |-> x < 0,
     digits |-> IF precision = 2 THEN (Abs(x) + 5) \div 10 ELSE Abs(x)]

getGeospatialCacheKey(lat, lon) ==
    <<ToFixed(lat, GeoPrecision), ToFixed(lon, GeoPrecision)>>

-----------------------------------------------------------------------------
(* Popularity Aggregator: the TrendingArticles view query                  *)

\* CASE WHEN ue."eventType" = 'click' THEN 1.5 ELSE 1.0 END, in tenths
EventWeight(eventType) == IF eventType = "click" THEN 15 ELSE 10

\* EXP(-EXTRACT(EPOCH FROM (NOW() - ue."createdAt")) / (3600 * 12)), scale 10^4
TimeDecay(age) == ExpNegE4(age, DecayScaleSeconds)

\* a join on the article alone, with no bound on the event's age
JoinsAnyAge(a, e, t) == e.articleId = a

\* the LEFT JOIN condition: a.id = ue."articleId" AND
\* ue."createdAt" > NOW() - INTERVAL '24 hours'
Joins(a, e, t) == e.articleId = a /\ e.createdAt > t - WindowSeconds

\* one joined event's term of the SUM, scale 10^3
EventTerm(e, t) == (EventWeight(e.eventType) * TimeDecay(t - e.createdAt)) \div 100

\* COALESCE(SUM(...), 0) over the events joined to article a at NOW() = t
TrendingScore(a, evs, t) ==
    LET joined == SelectSeq(evs, LAMBDA e : Joins(a, e, t))
    IN SumSeq([i \in 1..Len(joined) |-> EventTerm(joined[i], t)])

\* an INNER JOIN would drop the articles that have no joined event
TrendingArticlesInnerJoin(arts, evs, t) ==
    {[id |-> a, trending_score |-> TrendingScore(a, evs, t)] :
        a \in {x \in DOMAIN arts : \E i \in 1..Len(evs) : Joins(x, evs[i], t)}}

\* SELECT a.*, COALESCE(SUM(..), 0) FROM "Article" a LEFT JOIN "UserEvent" ue
\* ON ... GROUP BY a.id : one row per article
TrendingArticlesQuery(arts, evs, t) ==
    {[id |-> a, trending_score |-> TrendingScore(a, evs, t)] : a \in DOMAIN arts}

\* an incremental refresh would add the new sums to the stored ones
RefreshedRowsIncremental(old, new) ==
    {[id |-> r.id,
      trending_score |-> r.trending_score +
          SumSeq([i \in 1..Cardinality({x \in old : x.id = r.id}) |->
                     (CHOOSE x \in old : x.id = r.id).trending_score])] :
        r \in new}

\* REFRESH MATERIALIZED VIEW: the view's contents become the query's result
RefreshedRows(old, new) == new

\* rows of the transaction's working copy after `applied` of the new rows (in
\* id order) have been merged into it
WorkingRows(old, new, applied) ==
    {r \in new : r.id <= applied} \cup {r \in old : r.id > applied}

\* READ UNCOMMITTED would let a statement see the working copy
VisibleRowsDirty(committed, txn) ==
    IF txn.pc = "building" THEN WorkingRows(committed, txn.rows, txn.applied) ELSE committed

\* what a statement of another session reads while the refresh transaction
\* is open: the committed rows (MVCC; CONCURRENTLY takes no lock that
\* conflicts with SELECT)
VisibleRows(committed, txn) == committed

\* REFRESH MATERIALIZED VIEW CONCURRENTLY holds EXCLUSIVE on the view
RefreshLock(txn) == IF txn.pc = "building" THEN "EXCLUSIVE" ELSE "none"

\* a SELECT takes ACCESS SHARE, which conflicts with ACCESS EXCLUSIVE only
SelectBlocked(lock) == lock = "ACCESS EXCLUSIVE"

-----------------------------------------------------------------------------
(* Ranking Resolver: NewsRepository.findTrending                           *)

\* ST_Distance(location, user point) in meters, equirectangular near the
\* equator: 111 m per millidegree
ST_Distance(loc, lat, lon) ==
    111 * ISqrt((loc.lat - lat) * (loc.lat - lat) + (loc.lon - lon) * (loc.lon - lon))

\* trending_score * EXP(-ST_Distance(location, point) / 50000); NULL when
\* the location is NULL
BlendedScore(row, arts, lat, lon) ==
    IF arts[row.id].location.isNull THEN [isNull |-> TRUE, v |-> 0]
    ELSE [isNull |-> FALSE,
          v |-> row.trending_score *
                ExpNegE4(ST_Distance(arts[row.id].location, lat, lon), DistanceScaleMeters)]

\* ORDER BY trending_score DESC: the distance to the user is left out
RanksBeforeByTrendingScore(r1, r2, arts, lat, lon) ==
    r1.trending_score > r2.trending_score
        \/ (r1.trending_score = r2.trending_score /\ r1.id < r2.id)

\* ORDER BY ... DESC: NULLs first, then greater values; ties in id order
RanksBefore(r1, r2, arts, lat, lon) ==
    LET b1 == BlendedScore(r1, arts, lat, lon)
        b2 == BlendedScore(r2, arts, lat, lon)
    IN IF b1.isNull /\ b2.isNull THEN r1.id < r2.id
       ELSE IF b1.isNull THEN TRUE
       ELSE IF b2.isNull THEN FALSE
       ELSE b1.v > b2.v \/ (b1.v = b2.v /\ r1.id < r2.id)

RECURSIVE OrderedPrefix(_, _, _, _, _)
OrderedPrefix(rows, n, arts, lat, lon) ==
    IF n <= 0 \/ rows = {} THEN <<>>
    ELSE LET first == CHOOSE r \in rows :
                        \A o \in rows \ {r} : RanksBefore(r, o, arts, lat, lon)
         IN <<first>> \o OrderedPrefix(rows \ {first}, n - 1, arts, lat, lon)

\* SELECT .. FROM "TrendingArticles" ORDER BY blended DESC LIMIT ${limit}
findTrending(rows, arts, lat, lon, limit) ==
    OrderedPrefix(rows, limit, arts, lat, lon)

\* NewsService.formatArticles: the article columns, without trending_score
formatArticles(rows) == [i \in 1..Len(rows) |-> rows[i].id]

-----------------------------------------------------------------------------
(* Cache Layer: RedisCacheProvider over one Redis keyspace                 *)

\* a JavaScript value handed to or returned by the cache: undefined, null,
\* NaN, a string, or an array (of formatted articles, which hold only
\* strings and finite numbers)
JsUndefined == [t |-> "undefined", s |-> "", items |-> <<>>]
JsNull == [t |-> "null", s |-> "", items |-> <<>>]
JsNaN == [t |-> "NaN", s |-> "", items |-> <<>>]
JsString(s) == [t |-> "string", s |-> s, items |-> <<>>]
JsArray(items) == [t |-> "array", s |-> "", items |-> items]

\* if (value): undefined, null, NaN and '' are falsy; an array is truthy
Truthy(v) == v.t = "array" \/ (v.t = "string" /\ v.s # "")

\* String(value) in place of JSON.stringify: an array loses its structure
JSONStringifyAsString(v) == [empty |-> FALSE, json |-> JsString(v.s)]

\* JSON.stringify(value) as the Redis client sends it: undefined has no
\* JSON text and goes out as the empty string; NaN is written as null
JSONStringify(v) ==
    IF v.t = "undefined" THEN [empty |-> TRUE, json |-> JsNull]
    ELSE IF v.t = "NaN" THEN [empty |-> FALSE, json |-> JsNull]
    ELSE [empty |-> FALSE, json |-> v]

\* data ? JSON.parse(data) : null
JSONParse(data) == IF data.empty THEN JsNull ELSE data.json

\* Redis drops a key once its EX time has passed
ExpireNever(c, t) == c

Expire(c, t) == [k \in {x \in DOMAIN c : c[x].expiresAt > t} |-> c[k]]

\* a get that answered from a local copy while Redis is unreachable
CacheGetDespiteOutage(c, up, key) ==
    IF key \in DOMAIN c
    THEN [isNull |-> JSONParse(c[key].value).t = "null", value |-> JSONParse(c[key].value),
          tag |-> c[key].tag]
    ELSE [isNull |-> TRUE, value |-> JsNull, tag |-> [epoch |-> 0, at |-> 0]]

\* get: the parsed value, or null when the key is absent or Redis fails
CacheGet(c, up, key) ==
    IF up /\ key \in DOMAIN c
    THEN [isNull |-> JSONParse(c[key].value).t = "null", value |-> JSONParse(c[key].value),
          tag |-> c[key].tag]
    ELSE [isNull |-> TRUE, value |-> JsNull, tag |-> [epoch |-> 0, at |-> 0]]

\* set(key, value, 'EX', ttlSeconds); a failure of Redis is swallowed.
\* tag is history: the snapshot epoch and time the value was computed at.
\* client.set(key, json) with no 'EX' argument: the entry has no TTL
CacheSetWithoutTTL(c, up, key, value, ttlSeconds, t, tag) ==
    IF up
    THEN (key :> [value |-> JSONStringify(value), expiresAt |-> t + ttlSeconds,
                  ttl |-> 0, tag |-> tag])
         @@ [k \in DOMAIN c \ {key} |-> c[k]]
    ELSE c

\* a set that stores nothing
CacheSetDropped(c, up, key, value, ttlSeconds, t, tag) == c

\* SET key value EX ttl NX: a key that is already there keeps its value
CacheSetIfAbsent(c, up, key, value, ttlSeconds, t, tag) ==
    IF up /\ key \notin DOMAIN c
    THEN (key :> [value |-> JSONStringify(value), expiresAt |-> t + ttlSeconds,
                  ttl |-> ttlSeconds, tag |-> tag])
         @@ c
    ELSE c

CacheSet(c, up, key, value, ttlSeconds, t, tag) ==
    IF up
    THEN (key :> [value |-> JSONStringify(value), expiresAt |-> t + ttlSeconds,
                  ttl |-> ttlSeconds, tag |-> tag])
         @@ [k \in DOMAIN c \ {key} |-> c[k]]
    ELSE c

TrendingKey(lat, lon) == <<"trending", getGeospatialCacheKey(lat, lon)>>

-----------------------------------------------------------------------------
(* Text: a string is a sequence of one-character strings                   *)

UpperCase ==
    <<"A", "B", "C", "D", "E", "F", "G", "H", "I", "J", "K", "L", "M",
      "N", "O", "P", "Q", "R", "S", "T", "U", "V", "W", "X", "Y", "Z">>

LowerCase ==
    <<"a", "b", "c", "d", "e", "f", "g", "h", "i", "j", "k", "l", "m",
      "n", "o", "p", "q", "r", "s", "t", "u", "v", "w", "x", "y", "z">>

LowerChar(c) ==
    IF \E i \in 1..Len(UpperCase) : UpperCase[i] = c
    THEN LowerCase[CHOOSE i \in 1..Len(UpperCase) : UpperCase[i] = c]
    ELSE c

ToLower(s) == [i \in 1..Len(s) |-> LowerChar(s[i])]

IsSubstring(k, s) ==
    \E i \in 0..(Len(s) - Len(k)) : SubSeq(s, i + 1, i + Len(k)) = k

EndsWith(s, suffix) ==
    Len(s) >= Len(suffix) /\ SubSeq(s, Len(s) - Len(suffix) + 1, Len(s)) = suffix

RECURSIVE SplitWhitespace(_, _)
\* the maximal runs of non-space characters of s; cur is the run being read
SplitWhitespace(s, cur) ==
    IF s = <<>> THEN (IF cur = <<>> THEN <<>> ELSE <<cur>>)
    ELSE IF Head(s) = " "
         THEN (IF cur = <<>> THEN SplitWhitespace(Tail(s), <<>>)
               ELSE <<cur>> \o SplitWhitespace(Tail(s), <<>>))
         ELSE SplitWhitespace(Tail(s), Append(cur, Head(s)))

RECURSIVE JoinWith(_, _)
\* Array.prototype.join
JoinWith(parts, sep) ==
    IF Len(parts) = 0 THEN <<>>
    ELSE IF Len(parts) = 1 THEN parts[1]
    ELSE parts[1] \o sep \o JoinWith(Tail(parts), sep)

\* without the LIMIT every row comes back
TakeAll(rows, n) == rows

\* LIMIT n / take: n
Take(rows, n) == SubSeq(rows, 1, IF Len(rows) < n THEN Len(rows) ELSE n)

\* OFFSET k
Offset(rows, k) == SubSeq(rows, k + 1, Len(rows))

RECURSIVE OrderDesc(_, _)
\* ORDER BY key DESC over the rows with the given ids; ties in id order
OrderDesc(ids, key) ==
    IF ids = {} THEN <<>>
    ELSE LET first == CHOOSE a \in ids :
                        \A b \in ids \ {a} : key[a] > key[b] \/ (key[a] = key[b] /\ a < b)
         IN <<first>> \o OrderDesc(ids \ {first}, key)

AsRows(ids) == [i \in 1..Len(ids) |-> [id |-> ids[i]]]

-----------------------------------------------------------------------------
(* Article search: Prisma findMany by keywords, and full-text search       *)

\* { contains: keyword, mode: 'insensitive' }: text ILIKE '%keyword%'
ContainsInsensitive(text, keyword) == IsSubstring(ToLower(keyword), ToLower(text))

\* a keyword search that also kept only the articles within 0.005 degrees of
\* latitude of the request
findManyByKeywordsNearby(arts, keywords, take) ==
    LET hits == {a \in DOMAIN arts :
                   /\ \E i \in 1..Len(keywords) :
                         \/ ContainsInsensitive(arts[a].title, keywords[i])
                         \/ ContainsInsensitive(arts[a].description, keywords[i])
                   /\ arts[a].latitude - qreq.lat.v \in -5..5}
    IN AsRows(Take(OrderDesc(hits, [a \in hits |-> arts[a].relevance_score]), take))

\* prisma.article.findMany({ where: { OR: [title contains k, description
\* contains k, ...] }, orderBy: { relevance_score: 'desc' }, take: 5 })
findManyByKeywords(arts, keywords, take) ==
    LET hits == {a \in DOMAIN arts :
                   \E i \in 1..Len(keywords) :
                       \/ ContainsInsensitive(arts[a].title, keywords[i])
                       \/ ContainsInsensitive(arts[a].description, keywords[i])}
    IN AsRows(Take(OrderDesc(hits, [a \in hits |-> arts[a].relevance_score]), take))

\* query.trim().split(/\s+/): the words, or one empty string when there are none
TrimSplit(query) ==
    LET words == SplitWhitespace(query, <<>>)
    IN IF Len(words) = 0 THEN << <<>> >> ELSE words

\* const processedQuery = query.trim().split(/\s+/).join(' & ');
processedQuery(query) == JoinWith(TrimSplit(query), <<" ", "&", " ">>)

\* stop words of the 'english' configuration (a few of them)
StopWords == {<<"t", "h", "e">>, <<"a">>, <<"o", "f">>, <<"i", "n">>}

\* the english stemmer, cut down to the plural endings
Stem(w) ==
    IF Len(w) > 3 /\ EndsWith(w, <<"e", "s">>) THEN SubSeq(w, 1, Len(w) - 2)
    ELSE IF Len(w) > 2 /\ EndsWith(w, <<"s">>) THEN SubSeq(w, 1, Len(w) - 1)
    ELSE w

\* the lexemes of the words: lower case, stop words dropped, stemmed
Lexemes(words) ==
    LET kept == SelectSeq([i \in 1..Len(words) |-> ToLower(words[i])],
                          LAMBDA w : w \notin StopWords)
    IN [i \in 1..Len(kept) |-> Stem(kept[i])]

\* to_tsvector('english', NEW.title || ' ' || NEW.description), with
\* multiplicity
search_vector(row) ==
    Lexemes(SplitWhitespace(row.title \o <<" ">> \o row.description, <<>>))

TsOperators == {"&", "|", "!", "(", ")", ":", "<", ">"}

IsOperatorToken(w) == Len(w) = 1 /\ w[1] \in TsOperators

\* to_tsquery('english', text) of operands joined by " & ": a syntax error
\* when an operand position holds an operator; no lexemes when every operand
\* is a stop word or empty
to_tsquery(text) ==
    LET items == SplitWhitespace(text, <<>>)
        operands == [i \in 1..((Len(items) + 1) \div 2) |-> items[2 * i - 1]]
        wellFormed ==
            /\ Len(items) % 2 = 1
            /\ \A i \in 1..Len(items) :
                 IF i % 2 = 1 THEN ~IsOperatorToken(items[i]) ELSE items[i] = <<"&">>
    IN IF Len(items) = 0 THEN [error |-> FALSE, lexemes |-> {}]
       ELSE IF ~wellFormed THEN [error |-> TRUE, lexemes |-> {}]
       ELSE [error |-> FALSE,
             lexemes |-> {Lexemes(operands)[i] : i \in 1..Len(Lexemes(operands))}]

\* search_vector @@ tsquery: every lexeme of the query is in the vector; a
\* query without lexemes matches nothing
TsMatches(vector, q) ==
    /\ q.lexemes # {}
    /\ \A l \in q.lexemes : \E i \in 1..Len(vector) : vector[i] = l

\* ts_rank(search_vector, tsquery): grows with the number of occurrences of
\* the query's lexemes in the vector
ts_rank(vector, q) == Cardinality({i \in 1..Len(vector) : vector[i] \in q.lexemes})

\* NewsRepository.findBySearchQuery: ORDER BY ts_rank DESC, relevance_score
\* DESC OFFSET skip LIMIT limit, and the COUNT(*) of the matches
findBySearchQuery(arts, query, page, limit) ==
    LET q == to_tsquery(processedQuery(query))
        skip == (page - 1) * limit
        hits == {a \in DOMAIN arts : TsMatches(search_vector(arts[a]), q)}
        key == [a \in hits |->
                  1000 * ts_rank(search_vector(arts[a]), q) + arts[a].relevance_score]
    IN IF q.error THEN [error |-> TRUE, articles |-> <<>>, total |-> 0]
       ELSE [error |-> FALSE,
             articles |-> AsRows(Take(Offset(OrderDesc(hits, key), skip), limit)),
             total |-> Cardinality(hits)]

-----------------------------------------------------------------------------
(* Tables after the init script                                            *)

ArticleRow(title, description, score, lat, lon) ==
    [title |-> title, description |-> description, relevance_score |-> score,
     latitude |-> lat, longitude |-> lon, location |-> Point(lat, lon)]

\* three articles: two at the edges of one geo bucket, one 43 km away
TrendArticles ==
    (1 :> ArticleRow(<<"F", "l", "o", "o", "d">>, <<"r", "i", "v", "e", "r">>, 90, 5, 12)) @@
    (2 :> ArticleRow(<<"T", "a", "x">>, <<"b", "u", "d", "g", "e", "t">>, 70, 15, 12)) @@
    (3 :> ArticleRow(<<"C", "u", "p">>, <<"f", "i", "n", "a", "l">>, 50, 400, 12))

\* six articles about tax, so that a search can match more than five
QueryArticles ==
    (1 :> ArticleRow(<<"T", "a", "x", " ", "c", "u", "t">>, <<"t", "a", "x">>, 90, 5, 12)) @@
    (2 :> ArticleRow(<<"T", "a", "x", "e", "s">>, <<"t", "h", "e", " ", "t", "a", "x">>,
                     80, 15, 12)) @@
    (3 :> ArticleRow(<<"T", "A", "X">>, <<"u", "p">>, 70, 400, 12)) @@
    (4 :> ArticleRow(<<"t", "a", "x">>, <<"u", "p">>, 60, 5, 12)) @@
    (5 :> ArticleRow(<<"t", "a", "x">>, <<"u", "p">>, 50, 5, 12)) @@
    (6 :> ArticleRow(<<"t", "a", "x">>, <<"u", "p">>, 40, 5, 12))

\* keys used by direct calls of the cache provider
ProbeKeys == {<<"probe:a", <<>>>>}

NoProviderCalls ==
    [set |-> [k \in ProbeKeys |->
                [any |-> FALSE, value |-> JsNull, ttl |-> 0, at |-> 0, up |-> FALSE]],
     got |-> [any |-> FALSE, key |-> <<"probe:a", <<>>>>, value |-> JsNull, at |-> 0,
              up |-> FALSE]]

IdleRefresh == [pc |-> "idle", rows |-> {}, at |-> 0, nev |-> 0, applied |-> 0]

IdleTrending ==
    [pc |-> "idle", lat |-> 0, lon |-> 0, limit |-> 0, rows |-> <<>>, result |-> <<>>,
     hit |-> FALSE, startEpoch |-> 0, startedAt |-> 0, resEpoch |-> 0, resAt |-> 0,
     seen |-> {}, overlap |-> FALSE, cacheDown |-> FALSE]

IdleQuery ==
    [pc |-> "idle", query |-> <<>>, lat |-> [undef |-> TRUE, v |-> 0],
     lon |-> [undef |-> TRUE, v |-> 0], hit |-> FALSE, analysed |-> FALSE,
     keywords |-> <<>>, articles |-> <<>>, enriched |-> <<>>, summary |-> "",
     status |-> "none", error |-> "", result |-> <<>>,
     oracleCalls |-> 0, oracleFailed |-> FALSE, keywordSearches |-> 0, keywordRows |-> 0,
     textSearches |-> 0, textRows |-> 0, textError |-> FALSE, summarizeCalls |-> 0,
     failed |-> {}, queryWrites |-> 0, doneAt |-> 0, afterEmpty |-> FALSE,
     afterSameCell |-> FALSE, cacheDown |-> FALSE]

Procs == {1, 2}

InitWith(arts) ==
    /\ now = 0
    /\ articles = arts
    /\ events = <<>>
    /\ view = TrendingArticlesQuery(arts, <<>>, 0)
    /\ viewMeta = [epoch |-> 0, at |-> 0, nev |-> 0]
    /\ prevSnap = [rows |-> TrendingArticlesQuery(arts, <<>>, 0), at |-> 0, nev |-> 0]
    /\ refresh = IdleRefresh
    /\ cron = [last |-> 0, outcome |-> "succeeded"]
    /\ cache = <<>>
    /\ redisUp = TRUE
    /\ treq = [p \in Procs |-> IdleTrending]
    /\ qreq = IdleQuery
    /\ ereq = [outcome |-> "none", articleId |-> 0]
    /\ served = {}
    /\ creq = NoProviderCalls

-----------------------------------------------------------------------------
(* Clock                                                                   *)

\* d seconds pass; a refresh run is shorter than one clock step
Advance(d) ==
    /\ refresh.pc = "idle"
    /\ now + d <= d * MaxTicks
    /\ now' = now + d
    /\ cache' = Expire(cache, now + d)
    /\ UNCHANGED <<dbVars, redisUp, treq, qreq, ereq, served, creq>>

-----------------------------------------------------------------------------
(* Event Recorder: NewsService.createEvent -> NewsRepository.logEvent      *)

\* no constraint on "UserEvent"."articleId": any id is accepted
ForeignKeyUnchecked(arts, articleId) == TRUE

\* UserEvent_articleId_fkey: "articleId" REFERENCES "Article"(id)
ForeignKeyHolds(arts, articleId) == articleId \in DOMAIN arts

\* an INSERT ... ON CONFLICT ("eventType", "articleId", "userId") DO UPDATE: a
\* repeated event of the same user replaces the earlier row
UpsertUserEvent(evs, row) ==
    IF \E i \in 1..Len(evs) : /\ evs[i].eventType = row.eventType
                               /\ evs[i].articleId = row.articleId
                               /\ evs[i].userId = row.userId
    THEN [i \in 1..Len(evs) |->
            IF /\ evs[i].eventType = row.eventType /\ evs[i].articleId = row.articleId
               /\ evs[i].userId = row.userId
            THEN row ELSE evs[i]]
    ELSE Append(evs, row)

\* INSERT INTO "UserEvent" (id, ...) VALUES (gen_random_uuid(), ...): a new
\* row with a fresh id
InsertUserEvent(evs, row) == Append(evs, row)

\* a createEvent that also deleted every cached trending list
CreateEventInvalidating(eventType, articleId, userId) ==
    /\ Len(events) < MaxEvents
    /\ ForeignKeyHolds(articles, articleId)
    /\ events' = InsertUserEvent(events, [eventType |-> eventType, articleId |-> articleId,
                                           userId |-> userId, createdAt |-> now])
    /\ ereq' = [outcome |-> "logged", articleId |-> articleId]
    /\ cache' = [k \in {x \in DOMAIN cache : x[1] # "trending"} |-> cache[k]]
    /\ UNCHANGED <<now, articles, view, viewMeta, prevSnap, refresh, cron, redisUp,
                   treq, qreq, served, creq>>

\* INSERT INTO "UserEvent" ...; a foreign-key violation fails the statement
\* and the promise of createEvent rejects
CreateEvent(eventType, articleId, userId) ==
    /\ Len(events) < MaxEvents
    /\ IF ForeignKeyHolds(articles, articleId)
       THEN /\ events' = InsertUserEvent(events, [eventType |-> eventType,
                                                   articleId |-> articleId,
                                                   userId |-> userId, createdAt |-> now])
            /\ ereq' = [outcome |-> "logged", articleId |-> articleId]
       ELSE /\ events' = events
            /\ ereq' = [outcome |-> "error", articleId |-> articleId]
    /\ UNCHANGED <<now, articles, view, viewMeta, prevSnap, refresh, cron, cache, redisUp,
                   treq, qreq, served, creq>>

-----------------------------------------------------------------------------
(* Popularity Aggregator: the pg_cron job and the refresh transaction      *)

MaxId(arts) == Cardinality(DOMAIN arts)

\* '*/5 * * * *': the job starts REFRESH MATERIALIZED VIEW CONCURRENTLY, which
\* evaluates the view query once, at the transaction's NOW()
CronTick ==
    /\ now % CronPeriod = 0
    /\ cron.last < now
    /\ refresh.pc = "idle"
    /\ cron' = [last |-> now, outcome |-> "running"]
    /\ refresh' = [pc |-> "building", rows |-> TrendingArticlesQuery(articles, events, now),
                   at |-> now, nev |-> Len(events), applied |-> 0]
    /\ UNCHANGED <<now, articles, events, view, viewMeta, prevSnap, cache, redisUp,
                   treq, qreq, ereq, served, creq>>

\* the transaction merges the next row's difference into its working copy
RefreshApply ==
    /\ refresh.pc = "building"
    /\ refresh.applied < MaxId(articles)
    /\ refresh' = [refresh EXCEPT !.applied = @ + 1]
    /\ UNCHANGED <<now, articles, events, view, viewMeta, prevSnap, cron, cache, redisUp,
                   treq, qreq, ereq, served, creq>>

\* without a transaction the rows merged so far would stay in the view
AfterRollbackPartial(committed, txn) == WorkingRows(committed, txn.rows, txn.applied)

\* a failed transaction is rolled back: the committed rows are untouched
AfterRollback(committed, txn) == committed

\* COMMIT: the new rows replace the old ones at once
RefreshCommit ==
    /\ refresh.pc = "building"
    /\ refresh.applied = MaxId(articles)
    /\ view' = RefreshedRows(view, refresh.rows)
    /\ viewMeta' = [epoch |-> viewMeta.epoch + 1, at |-> refresh.at, nev |-> refresh.nev]
    /\ prevSnap' = [rows |-> view, at |-> viewMeta.at, nev |-> viewMeta.nev]
    /\ refresh' = IdleRefresh
    /\ cron' = [cron EXCEPT !.outcome = "succeeded"]
    /\ served' = {}
    /\ UNCHANGED <<now, articles, events, cache, redisUp, treq, qreq, ereq, creq>>

\* the statement fails (or the backend crashes) anywhere before COMMIT
RefreshFail ==
    /\ refresh.pc = "building"
    /\ refresh' = IdleRefresh
    /\ view' = AfterRollback(view, refresh)
    /\ cron' = [cron EXCEPT !.outcome = "failed"]
    /\ UNCHANGED <<now, articles, events, viewMeta, prevSnap, cache, redisUp,
                   treq, qreq, ereq, served, creq>>

-----------------------------------------------------------------------------
(* NewsService.getTrending                                                 *)

Answer(lat, lon, limit, result) ==
    [lat |-> lat, lon |-> lon, limit |-> limit, result |-> result]

\* history keeps the first answer of a call made under the current snapshot
Remember(hist, answer) == IF hist = {} THEN {answer} ELSE hist

\* const cachedResult = await cacheProvider.get(cacheKey);
\* if (cachedResult !== null) return cachedResult;
GetTrendingCall(p, lat, lon, limit) ==
    /\ treq[p].pc = "idle"
    /\ LET got == CacheGet(cache, redisUp, TrendingKey(lat, lon))
           call == [IdleTrending EXCEPT !.lat = lat, !.lon = lon, !.limit = limit,
                                        !.startEpoch = viewMeta.epoch, !.startedAt = now,
                                        !.cacheDown = ~redisUp]
       IN /\ treq' = [treq EXCEPT ![p] =
                     IF ~got.isNull
                     THEN [call EXCEPT !.pc = "done", !.hit = TRUE, !.result = got.value.items,
                                       !.resEpoch = got.tag.epoch, !.resAt = got.tag.at]
                     ELSE [call EXCEPT !.pc = "miss"]]
          /\ served' = IF got.isNull THEN served
                        ELSE Remember(served, Answer(lat, lon, limit, got.value.items))
    /\ UNCHANGED <<now, dbVars, cache, redisUp, qreq, ereq, creq>>

\* const articles = await this.repository.findTrending(lat, lon, limit);
\* const formattedArticles = this.formatArticles(articles);
TrendingQuery(p) ==
    /\ treq[p].pc = "miss"
    /\ ~SelectBlocked(RefreshLock(refresh))
    /\ LET seen == VisibleRows(view, refresh)
           rows == findTrending(seen, articles, treq[p].lat, treq[p].lon, treq[p].limit)
       IN treq' = [treq EXCEPT ![p] =
                     [@ EXCEPT !.pc = "fetched", !.rows = formatArticles(rows), !.seen = seen,
                               !.resEpoch = viewMeta.epoch, !.resAt = now,
                               !.overlap = (refresh.pc = "building" /\ refresh.applied > 0)]]
    /\ UNCHANGED <<now, dbVars, cache, redisUp, qreq, ereq, served, creq>>

\* await cacheProvider.set(cacheKey, formattedArticles, 300); return formattedArticles;
TrendingStore(p) ==
    /\ treq[p].pc = "fetched"
    /\ cache' = CacheSet(cache, redisUp, TrendingKey(treq[p].lat, treq[p].lon),
                         JsArray(treq[p].rows), TrendingTTL, now, [epoch |-> treq[p].resEpoch, at |-> now])
    /\ treq' = [treq EXCEPT ![p] = [@ EXCEPT !.pc = "done", !.result = treq[p].rows,
                                              !.cacheDown = @ /\ ~redisUp]]
    /\ served' = IF treq[p].startEpoch = viewMeta.epoch
                 THEN Remember(served, Answer(treq[p].lat, treq[p].lon, treq[p].limit,
                                              treq[p].rows))
                 ELSE served
    /\ UNCHANGED <<now, dbVars, redisUp, qreq, ereq, creq>>

\* the response is sent; the slot is free for the next request
TrendingReturn(p) ==
    /\ treq[p].pc = "done"
    /\ treq' = [treq EXCEPT ![p] = IdleTrending]
    /\ UNCHANGED <<now, dbVars, cache, redisUp, qreq, ereq, served, creq>>

-----------------------------------------------------------------------------
(* Trending requests against the refresh cycle                             *)

TrendCoords == {<<6, 12>>, <<14, 12>>}
TrendLimits == {1, 2}
TrendSteps == {150}

InitTrend == InitWith(TrendArticles)

NextTrend ==
    \/ \E d \in TrendSteps : Advance(d)
    \/ \E a \in {2} : CreateEvent("click", a, "u1")
    \/ CronTick
    \/ RefreshApply
    \/ RefreshCommit
    \/ RefreshFail
    \/ \E c \in TrendCoords, l \in TrendLimits : GetTrendingCall(1, c[1], c[2], l)
    \/ TrendingQuery(1)
    \/ TrendingStore(1)
    \/ TrendingReturn(1)

SpecTrend == InitTrend /\ [][NextTrend]_vars

-----------------------------------------------------------------------------
(* Properties of getTrending                                               *)

\* C1: every completed getTrending call returns at most `limit` articles.
C1_AtMostLimit ==
    \A p \in Procs : treq[p].pc = "done" => Len(treq[p].result) <= treq[p].limit

\* C2: two calls that both run under one snapshot (no refresh commits from
\* the start of the first to the end of the second) with identical
\* (lat, lon, limit) return identical lists.
C2_StableForSameInputs ==
    \A p \in Procs : \A x \in served :
        (treq[p].pc = "done" /\ treq[p].startEpoch = viewMeta.epoch
            /\ x.lat = treq[p].lat /\ x.lon = treq[p].lon /\ x.limit = treq[p].limit)
        => x.result = treq[p].result

\* C3 (as claimed): a call that starts after a refresh has completed returns
\* a ranking computed from that snapshot or a later one.
C3_NeverFromEarlierSnapshot ==
    \A p \in Procs : treq[p].pc = "done" => treq[p].resEpoch >= treq[p].startEpoch

\* C3 (amended): a call that misses the cache returns a ranking computed from
\* the snapshot current at its store query; a call answered from the cache
\* returns a ranking written to the cache less than 300 seconds before the
\* call, possibly computed from an earlier snapshot.
C3_FreshOnMissBoundedOnHit ==
    \A p \in Procs : treq[p].pc = "done" =>
        /\ ~treq[p].hit => treq[p].resEpoch >= treq[p].startEpoch
        /\ treq[p].hit => treq[p].startedAt - treq[p].resAt < 300

C3_Witness ==
    \E p \in Procs : /\ treq[p].pc = "done"
                     /\ treq[p].hit
                     /\ treq[p].resEpoch < treq[p].startEpoch
                     /\ treq[p].startedAt > treq[p].resAt

-----------------------------------------------------------------------------
(* Reads concurrent with a refresh                                         *)

\* C4: a findTrending read that runs while a refresh transaction is open sees
\* a complete committed snapshot (never the partly merged working copy), and
\* the read never waits for a lock of the refresh.
C4_ReadsWholeSnapshotUnblocked ==
    [][\A p \in Procs :
          /\ (treq[p].pc = "miss" /\ treq'[p].pc = "fetched") => treq'[p].seen \in {view, view'}
          /\ treq[p].pc = "miss" => ~SelectBlocked(RefreshLock(refresh))]_vars

C4_Witness ==
    \E p \in Procs : /\ treq[p].pc = "fetched"
                     /\ treq[p].overlap
                     /\ refresh.pc = "building"
                     /\ refresh.applied < MaxId(articles)
                     /\ refresh.rows # view
                     /\ treq[p].resAt = now

-----------------------------------------------------------------------------
(* The refresh cycle on its own                                            *)

AggSteps == {43200}

InitAgg == InitWith(TrendArticles)

NextAgg ==
    \/ \E d \in AggSteps : Advance(d)
    \/ \E t \in {"click", "view"}, a \in {1, 2, 9} : CreateEvent(t, a, "u1")
    \/ CronTick
    \/ RefreshApply
    \/ RefreshCommit
    \/ RefreshFail

SpecAgg == InitAgg /\ [][NextAgg]_vars

ScoreIn(rows, a) == (CHOOSE r \in rows : r.id = a).trending_score

\* the article has an event, among the first nev rows of "UserEvent", created
\* inside the 24 hours that end at t
HasEventInWindow(a, nev, t) ==
    \E i \in 1..nev : events[i].articleId = a /\ events[i].createdAt > t - WindowSeconds
                      /\ events[i].createdAt <= t

\* C5: a failed refresh leaves the committed snapshot as it was, a skipped
\* cycle (time passing without a run) does too, and at the next 5-minute tick
\* after a failure the job starts a refresh again.
C5_FailedCycleKeepsSnapshotAndRetries ==
    /\ [][(cron.outcome = "running" /\ cron'.outcome = "failed")
            => (view' = view /\ viewMeta' = viewMeta)]_vars
    /\ [][now' # now => (view' = view /\ viewMeta' = viewMeta)]_vars
    /\ []((cron.outcome = "failed" /\ now % CronPeriod = 0 /\ cron.last < now)
            => ENABLED CronTick)

C5_Witness ==
    /\ cron.outcome = "failed"
    /\ viewMeta.epoch >= 1
    /\ viewMeta.nev < Len(events)
    /\ now > cron.last
    /\ \E r \in view : r.trending_score > 0

\* C6: in every state the view has exactly one row per article, and an
\* article with no UserEvent inside the 24-hour window of the refresh that
\* built the current rows is present with trending_score = 0.
C6_OneRowPerArticleZeroAsOfRefresh ==
    /\ \A a \in DOMAIN articles : Cardinality({r \in view : r.id = a}) = 1
    /\ \A r \in view : r.id \in DOMAIN articles
    /\ \A r \in view : ~HasEventInWindow(r.id, viewMeta.nev, viewMeta.at) => r.trending_score = 0

C6_Witness ==
    /\ viewMeta.epoch >= 1
    /\ \E r \in view : r.trending_score > 0
    /\ \E r \in view : r.trending_score = 0 /\ \E i \in 1..viewMeta.nev : events[i].articleId = r.id
    /\ \E r \in view : \A i \in 1..Len(events) : events[i].articleId # r.id

\* C7 (as claimed): two consecutive refreshes with no UserEvent inserted
\* between them leave every article with the same score.
C7_RebuildTwiceSameScores ==
    (viewMeta.epoch >= 1 /\ prevSnap.nev = viewMeta.nev) => view = prevSnap.rows

\* C7 (amended): two consecutive refreshes with no UserEvent inserted between
\* them leave no article with a greater score than after the first, and leave
\* the score unchanged (0) for an article with no event in the first run's
\* window.
C7_RebuildTwiceOnlyDecays ==
    (viewMeta.epoch >= 1 /\ prevSnap.nev = viewMeta.nev) =>
        \A a \in DOMAIN articles :
            /\ ScoreIn(view, a) <= ScoreIn(prevSnap.rows, a)
            /\ ~HasEventInWindow(a, prevSnap.nev, prevSnap.at)
                  => ScoreIn(view, a) = ScoreIn(prevSnap.rows, a)

C7_Witness ==
    /\ viewMeta.epoch >= 2
    /\ prevSnap.nev = viewMeta.nev
    /\ \E a \in DOMAIN articles : 0 < ScoreIn(view, a) /\ ScoreIn(view, a) < ScoreIn(prevSnap.rows, a)

-----------------------------------------------------------------------------
(* Query Resolution Pipeline: NewsService.processNaturalLanguageQuery      *)

\* an optional number of the request (lat?: number, lon?: number)
Undefined == [undef |-> TRUE, v |-> 0]
Num(v) == [undef |-> FALSE, v |-> v]

\* `query:final-v9:${query}:${lat}:${lon}`
QueryKey(query, lat, lon) == <<"query:final-v9", <<query, lat, lon>>>>

\* `summary:${article.id}`
SummaryKey(id) == <<"summary", <<id>>>>

\* summarizeText's catch block
SummaryNotAvailable == "Summary not available."

\* history: the request answered just before this one was the same request,
\* missed the cache and resolved to the empty list less than QueryTTL ago
RepeatsEmpty(prev, query, lat, lon, t) ==
    /\ prev.pc = "done" /\ prev.status = "ok" /\ ~prev.hit /\ prev.result = <<>>
    /\ prev.query = query /\ prev.lat = lat /\ prev.lon = lon
    /\ t < prev.doneAt + QueryTTL

\* history: the request answered just before this one had the same text,
\* other coordinates of the same geo bucket, and wrote its result to the
\* cache less than QueryTTL ago
RepeatsInCell(prev, query, lat, lon, t) ==
    /\ prev.pc = "done" /\ prev.queryWrites = 1
    /\ prev.query = query
    /\ ~prev.lat.undef /\ ~prev.lon.undef /\ ~lat.undef /\ ~lon.undef
    /\ <<prev.lat.v, prev.lon.v>> # <<lat.v, lon.v>>
    /\ getGeospatialCacheKey(prev.lat.v, prev.lon.v) = getGeospatialCacheKey(lat.v, lon.v)
    /\ t < prev.doneAt + QueryTTL

\* const cachedResult = await cacheProvider.get(cacheKey);
\* if (cachedResult) return cachedResult;   (an array is truthy)
\* The request arrives when no other is in progress: after the reply of the
\* previous one (idle) or right behind it (done).
QueryCall(query, lat, lon) ==
    /\ qreq.pc \in {"idle", "done"}
    /\ LET got == CacheGet(cache, redisUp, QueryKey(query, lat, lon))
           call == [IdleQuery EXCEPT !.query = query, !.lat = lat, !.lon = lon,
                                     !.afterEmpty = RepeatsEmpty(qreq, query, lat, lon, now),
                                     !.afterSameCell = RepeatsInCell(qreq, query, lat, lon, now),
                                     !.cacheDown = ~redisUp]
       IN qreq' = IF Truthy(got.value)
                  THEN [call EXCEPT !.pc = "done", !.status = "ok", !.hit = TRUE,
                                    !.result = got.value.items, !.doneAt = now]
                  ELSE [call EXCEPT !.pc = "analyze"]
    /\ UNCHANGED <<now, dbVars, cache, redisUp, treq, ereq, served, creq>>

\* history: when the request ended
EndedAt(req, t) == IF req.pc = "done" THEN [req EXCEPT !.doneAt = t] ELSE req

\* const keywords = analysis.keywords || [];
Keywords(analysis) == IF analysis.hasKeywords THEN analysis.keywords ELSE <<>>

\* analyzeQuery resolves with JSON.parse(text); reading .keywords of null
\* throws a TypeError out of processNaturalLanguageQuery
AnalyzeReturns(analysis) ==
    /\ qreq.pc = "analyze"
    /\ qreq' = IF analysis.isNull
               THEN [qreq EXCEPT !.pc = "done", !.status = "error", !.error = "TypeError",
                                 !.oracleCalls = @ + 1, !.doneAt = now]
               ELSE [qreq EXCEPT !.keywords = Keywords(analysis), !.analysed = TRUE,
                                 !.oracleCalls = @ + 1,
                                 !.pc = IF Len(Keywords(analysis)) > 0 THEN "keywords"
                                        ELSE "fallback"]
    /\ UNCHANGED <<now, dbVars, cache, redisUp, treq, ereq, served, creq>>

\* a pipeline that treated the failure as "no keywords" would search anyway
AnalyzeFailedSearchesAnyway(req) ==
    [req EXCEPT !.pc = "fallback", !.oracleCalls = @ + 1, !.oracleFailed = TRUE]

\* catch (error) { throw new Error('Failed to analyze query'); } and no
\* handler in processNaturalLanguageQuery: the request is rejected
AnalyzeFailed(req) ==
    [req EXCEPT !.pc = "done", !.status = "error", !.error = "Failed to analyze query",
                !.oracleCalls = @ + 1, !.oracleFailed = TRUE]

\* the Gemini call or JSON.parse throws
AnalyzeFails ==
    /\ qreq.pc = "analyze"
    /\ qreq' = EndedAt(AnalyzeFailed(qreq), now)
    /\ UNCHANGED <<now, dbVars, cache, redisUp, treq, ereq, served, creq>>

\* const formattedArticles = this.formatArticles(articles); then
\* enrichArticlesWithSummaries starts on them
StartEnrich(req, rows) ==
    [req EXCEPT !.articles = formatArticles(rows), !.enriched = <<>>, !.pc = "summaryGet"]

\* a pipeline that ran the full-text search whatever the keyword search found
ArticlesEmptyOrNot(rows) == TRUE

\* if (articles.length === 0)
ArticlesEmpty(rows) == Len(rows) = 0

\* if (keywords.length > 0) articles = await prisma.article.findMany(...)
KeywordSearch ==
    /\ qreq.pc = "keywords"
    /\ LET found == findManyByKeywords(articles, qreq.keywords, QueryTake)
           ran == [qreq EXCEPT !.keywordSearches = @ + 1, !.keywordRows = Len(found)]
       IN qreq' = IF ArticlesEmpty(found) THEN [ran EXCEPT !.pc = "fallback"]
                  ELSE StartEnrich(ran, found)
    /\ UNCHANGED <<now, dbVars, cache, redisUp, treq, ereq, served, creq>>

\* a pipeline that raised on an empty result
NoArticlesFoundThrows(req) ==
    [req EXCEPT !.pc = "done", !.status = "error", !.error = "No articles found"]

\* if (articles.length === 0) return [];
NoArticlesFound(req) == [req EXCEPT !.pc = "done", !.status = "ok", !.result = <<>>]

\* if (articles.length === 0) articles = (await findBySearchQuery(query, 1, 5)).articles
FallbackSearch ==
    /\ qreq.pc = "fallback"
    /\ LET r == findBySearchQuery(articles, qreq.query, 1, QueryTake)
           ran == [qreq EXCEPT !.textSearches = @ + 1, !.textRows = Len(r.articles),
                               !.textError = r.error]
       IN qreq' = IF r.error
                  THEN [ran EXCEPT !.pc = "done", !.status = "error",
                                   !.error = "syntax error in tsquery", !.doneAt = now]
                  ELSE IF Len(r.articles) = 0 THEN EndedAt(NoArticlesFound(ran), now)
                  ELSE StartEnrich(ran, r.articles)
    /\ UNCHANGED <<now, dbVars, cache, redisUp, treq, ereq, served, creq>>

\* return { ...article, llm_summary: summary }; Promise.all resolves when the
\* last article is done
Enriched(req, id, summary) ==
    LET done == Append(req.enriched, [id |-> id, llm_summary |-> summary])
    IN [req EXCEPT !.enriched = done, !.summary = "",
                   !.pc = IF Len(done) = Len(req.articles) THEN "store" ELSE "summaryGet"]

\* the article whose callback runs next: the callbacks of Promise.all touch
\* one key each (summary:<id>), so they are taken in list order
NextArticle(req) == req.articles[Len(req.enriched) + 1]

\* let summary = await cacheProvider.get(summaryCacheKey); if (!summary) ...
SummaryGet ==
    /\ qreq.pc = "summaryGet"
    /\ LET got == CacheGet(cache, redisUp, SummaryKey(NextArticle(qreq)))
           met == [qreq EXCEPT !.cacheDown = @ /\ ~redisUp]
       IN qreq' = IF ~Truthy(got.value) THEN [met EXCEPT !.pc = "summarize"]
                  ELSE Enriched(met, NextArticle(qreq), got.value.s)
    /\ UNCHANGED <<now, dbVars, cache, redisUp, treq, ereq, served, creq>>

\* summary = await llmProvider.summarizeText(article.description): the text
\* of the model's answer
SummarizeReturns(text) ==
    /\ qreq.pc = "summarize"
    /\ qreq' = [qreq EXCEPT !.pc = "summarySet", !.summary = text, !.summarizeCalls = @ + 1]
    /\ UNCHANGED <<now, dbVars, cache, redisUp, treq, ereq, served, creq>>

\* a summarizeText that let the failure out would reject the whole request
\* (Promise.all rejects with the first rejection)
SummarizeFailedRejects(req, id) ==
    [req EXCEPT !.pc = "done", !.status = "error", !.error = "Failed to summarize",
                !.summarizeCalls = @ + 1, !.failed = @ \cup {id}]

\* a failure handled around the cache write: the placeholder goes into the
\* response and nothing is stored
SummarizeFailedUncached(req, id) ==
    Enriched([req EXCEPT !.summarizeCalls = @ + 1, !.failed = @ \cup {id}],
             id, SummaryNotAvailable)

\* catch (error) { return 'Summary not available.'; }  failed is history: the
\* articles whose summarization failed in this request
SummarizeFailed(req, id) ==
    [req EXCEPT !.pc = "summarySet", !.summary = SummaryNotAvailable,
                !.summarizeCalls = @ + 1, !.failed = @ \cup {id}]

\* the Gemini call of summarizeText throws
SummarizeFails ==
    /\ qreq.pc = "summarize"
    /\ qreq' = EndedAt(SummarizeFailed(qreq, NextArticle(qreq)), now)
    /\ UNCHANGED <<now, dbVars, cache, redisUp, treq, ereq, served, creq>>

\* await cacheProvider.set(summaryCacheKey, summary, 86400);
SummarySet ==
    /\ qreq.pc = "summarySet"
    /\ cache' = CacheSet(cache, redisUp, SummaryKey(NextArticle(qreq)),
                         JsString(qreq.summary), SummaryTTL, now, [epoch |-> viewMeta.epoch, at |-> now])
    /\ qreq' = Enriched([qreq EXCEPT !.cacheDown = @ /\ ~redisUp], NextArticle(qreq),
                        qreq.summary)
    /\ UNCHANGED <<now, dbVars, redisUp, treq, ereq, served, creq>>

\* await cacheProvider.set(cacheKey, enrichedArticles, 3600); return enrichedArticles;
QueryStore ==
    /\ qreq.pc = "store"
    /\ cache' = CacheSet(cache, redisUp, QueryKey(qreq.query, qreq.lat, qreq.lon),
                         JsArray(qreq.enriched), QueryTTL, now, [epoch |-> viewMeta.epoch, at |-> now])
    /\ qreq' = [qreq EXCEPT !.pc = "done", !.status = "ok", !.result = qreq.enriched,
                            !.queryWrites = @ + 1, !.doneAt = now,
                            !.cacheDown = @ /\ ~redisUp]
    /\ UNCHANGED <<now, dbVars, redisUp, treq, ereq, served, creq>>

\* the response (or the error) is sent
QueryReturn ==
    /\ qreq.pc = "done"
    /\ qreq' = IdleQuery
    /\ UNCHANGED <<now, dbVars, cache, redisUp, treq, ereq, served, creq>>

-----------------------------------------------------------------------------
(* Query requests against the article store                                *)

\* "Tax", "opera" (matches nothing), "tax &" (an operator as a word)
QueryTexts ==
    {<<"T", "a", "x">>, <<"o", "p", "e", "r", "a">>, <<"t", "a", "x", " ", "&">>}

QueryCoords == {<<Undefined, Undefined>>, <<Num(6), Num(12)>>}

\* answers of the language oracle: JSON null, an object without keywords,
\* and objects with zero or one keyword
Analysis(keywords) == [isNull |-> FALSE, hasKeywords |-> TRUE, keywords |-> keywords]

Analyses ==
    {[isNull |-> TRUE, hasKeywords |-> FALSE, keywords |-> <<>>],
     [isNull |-> FALSE, hasKeywords |-> FALSE, keywords |-> <<>>],
     Analysis(<<>>),
     Analysis(<< <<"T", "A", "X">> >>),
     Analysis(<< <<"o", "p", "e", "r", "a">> >>)}

SummaryTexts == {"One sentence."}

InitQuery == InitWith(QueryArticles)

\* the requests of one cache lifetime: no entry expires between them
NextQuery ==
    \/ \E q \in QueryTexts, c \in QueryCoords : QueryCall(q, c[1], c[2])
    \/ \E a \in Analyses : AnalyzeReturns(a)
    \/ AnalyzeFails
    \/ KeywordSearch
    \/ FallbackSearch
    \/ SummaryGet
    \/ \E t \in SummaryTexts : SummarizeReturns(t)
    \/ SummarizeFails
    \/ SummarySet
    \/ QueryStore
    \/ QueryReturn

SpecQuery == InitQuery /\ [][NextQuery]_vars

-----------------------------------------------------------------------------
(* Properties of processNaturalLanguageQuery                               *)

C9_AtMostFiveArticlesAndSummaries ==
    /\ Len(qreq.result) <= 5
    /\ Len(qreq.articles) <= 5
    /\ qreq.summarizeCalls <= 5

C9_Witness ==
    /\ qreq.pc = "done"
    /\ Len(qreq.result) = 5
    /\ qreq.summarizeCalls = 5
    /\ Cardinality({a \in DOMAIN articles :
                      ContainsInsensitive(articles[a].title, qreq.query)}) > 5

\* C10: once analyzeQuery has failed on a cache miss the request is over with
\* an error: one oracle call, no keyword search, no full-text search, no
\* cache write of the request, and no entry under the query's key.
C10_OracleFailureIsFatal ==
    qreq.oracleFailed =>
        /\ qreq.pc = "done"
        /\ qreq.status = "error"
        /\ qreq.oracleCalls = 1
        /\ qreq.keywordSearches = 0
        /\ qreq.textSearches = 0
        /\ qreq.summarizeCalls = 0
        /\ qreq.queryWrites = 0
        /\ CacheGet(cache, redisUp, QueryKey(qreq.query, qreq.lat, qreq.lon)).isNull

C10_Witness ==
    /\ qreq.oracleFailed
    /\ qreq.pc = "done"
    /\ ~qreq.hit
    /\ qreq.error = "Failed to analyze query"
    /\ cache # <<>>

SummaryOf(result, id) == (CHOOSE r \in {result[i] : i \in 1..Len(result)} : r.id = id).llm_summary

\* C11: a request in which the summarization of some selected article has
\* failed never ends with an error; it returns every selected article, in
\* the selected order, and the articles whose summarization failed carry the
\* placeholder as llm_summary.
C11_SummaryFailureDegradesToPlaceholder ==
    qreq.failed # {} =>
        /\ qreq.status # "error"
        /\ qreq.pc = "done" =>
              /\ qreq.status = "ok"
              /\ [i \in 1..Len(qreq.result) |-> qreq.result[i].id] = qreq.articles
              /\ \A id \in qreq.failed : SummaryOf(qreq.result, id) = "Summary not available."

C11_Witness ==
    /\ qreq.pc = "done"
    /\ qreq.failed # {}
    /\ Len(qreq.result) > Cardinality(qreq.failed)
    /\ \E i \in 1..Len(qreq.result) : qreq.result[i].llm_summary # "Summary not available."

\* C12 (as claimed): a request that repeats, within the 1-hour TTL, the
\* request answered just before it, which resolved to the empty list, is
\* answered from the cache and does not call the language oracle.
C12_EmptyResultServedFromCache ==
    qreq.afterEmpty => (qreq.hit /\ qreq.oracleCalls = 0)

-----------------------------------------------------------------------------
(* Requests while Redis comes and goes                                     *)

\* the connection to Redis is lost: commands fail after maxRetriesPerRequest
RedisFails ==
    /\ redisUp
    /\ redisUp' = FALSE
    /\ UNCHANGED <<now, dbVars, cache, treq, qreq, ereq, served, creq>>

\* the connection is back; the keys are still there
RedisRecovers ==
    /\ ~redisUp
    /\ redisUp' = TRUE
    /\ UNCHANGED <<now, dbVars, cache, treq, qreq, ereq, served, creq>>

\* "Tax" (one article of TrendArticles), "opera" (none)
OutageTexts == {<<"T", "a", "x">>, <<"o", "p", "e", "r", "a">>}

OutageAnalyses == {Analysis(<<>>), Analysis(<< <<"T", "A", "X">> >>)}

OutageCoords == {<<6, 12>>}
OutageLimits == {2}

InitOutage == InitWith(TrendArticles)

NextOutage ==
    \/ RedisFails
    \/ RedisRecovers
    \/ \E c \in OutageCoords, l \in OutageLimits : GetTrendingCall(1, c[1], c[2], l)
    \/ TrendingQuery(1)
    \/ TrendingStore(1)
    \/ TrendingReturn(1)
    \/ \E q \in OutageTexts : QueryCall(q, Undefined, Undefined)
    \/ \E a \in OutageAnalyses : AnalyzeReturns(a)
    \/ AnalyzeFails
    \/ KeywordSearch
    \/ FallbackSearch
    \/ SummaryGet
    \/ \E t \in SummaryTexts : SummarizeReturns(t)
    \/ SummarizeFails
    \/ SummarySet
    \/ QueryStore
    \/ QueryReturn

SpecOutage == InitOutage /\ [][NextOutage]_vars

\* what the summarization oracle gave for the article in this request
OracleSummary(req, id) ==
    IF id \in req.failed THEN {SummaryNotAvailable} ELSE SummaryTexts

\* C13: while Redis is unreachable no step changes the keyspace; a
\* getTrending call whose cache operations all met the outage returns the
\* ranking read from the store; a processNaturalLanguageQuery call whose
\* cache operations all met the outage is not answered from the cache, gets
\* no error other than the oracle's or the search's, and returns the found
\* articles each with the summary the oracle gave in this request.
C13_OutageBehavesAsEmptyCache ==
    /\ [][~redisUp => cache' = cache]_vars
    /\ [](\A p \in Procs : (treq[p].pc = "done" /\ treq[p].cacheDown) =>
             /\ ~treq[p].hit
             /\ treq[p].result =
                  formatArticles(findTrending(treq[p].seen, articles, treq[p].lat,
                                              treq[p].lon, treq[p].limit)))
    /\ []((qreq.pc # "idle" /\ qreq.cacheDown) =>
             /\ ~qreq.hit
             /\ qreq.error \in {"", "TypeError", "Failed to analyze query",
                                 "syntax error in tsquery"}
             /\ (qreq.pc = "done" /\ qreq.status = "ok") =>
                   /\ qreq.summarizeCalls = Len(qreq.articles)
                   /\ Len(qreq.result) = Len(qreq.articles)
                   /\ \A i \in 1..Len(qreq.result) :
                         /\ qreq.result[i].id = qreq.articles[i]
                         /\ qreq.result[i].llm_summary
                               \in OracleSummary(qreq, qreq.articles[i]))

C13_Witness ==
    /\ ~redisUp
    /\ cache # <<>>
    /\ qreq.pc = "done" /\ qreq.cacheDown /\ qreq.status = "ok" /\ Len(qreq.result) > 0
    /\ ~CacheGetDespiteOutage(cache, redisUp, SummaryKey(qreq.result[1].id)).isNull
    /\ treq[1].pc = "done" /\ treq[1].cacheDown
    /\ ~CacheGetDespiteOutage(cache, redisUp, TrendingKey(treq[1].lat, treq[1].lon)).isNull

-----------------------------------------------------------------------------
(* The cache provider on its own: RedisCacheProvider.set / get             *)

\* cacheProvider.set(key, value, ttlSeconds)
ProviderSet(key, value, ttlSeconds) ==
    /\ cache' = CacheSet(cache, redisUp, key, value, ttlSeconds, now,
                         [epoch |-> viewMeta.epoch, at |-> now])
    /\ creq' = [set |-> [creq.set EXCEPT ![key] = [any |-> TRUE, value |-> value,
                                                    ttl |-> ttlSeconds, at |-> now,
                                                    up |-> redisUp]],
                got |-> IF creq.got.key = key THEN NoProviderCalls.got ELSE creq.got]
    /\ UNCHANGED <<now, dbVars, redisUp, treq, qreq, ereq, served>>

\* cacheProvider.get(key)
ProviderGet(key) ==
    /\ creq' = [creq EXCEPT !.got = [any |-> TRUE, key |-> key,
                                     value |-> CacheGet(cache, redisUp, key).value,
                                     at |-> now, up |-> redisUp]]
    /\ UNCHANGED <<now, dbVars, cache, redisUp, treq, qreq, ereq, served>>

\* values handed to set: a summary, the empty string, article lists, and
\* two values that have no JSON text of their own
ProbeValues ==
    {JsString("One sentence."), JsString(""), JsArray(<<>>), JsArray(<<1, 2>>),
     JsUndefined, JsNaN}

ProbeTTLs == {150, TrendingTTL}

ProbeSteps == {150}

InitRoundTrip == InitWith(TrendArticles)

NextRoundTrip ==
    \/ \E d \in ProbeSteps : Advance(d)
    \/ RedisFails
    \/ RedisRecovers
    \/ \E k \in ProbeKeys, v \in ProbeValues, t \in ProbeTTLs : ProviderSet(k, v, t)
    \/ \E k \in ProbeKeys : ProviderGet(k)

SpecRoundTrip == InitRoundTrip /\ [][NextRoundTrip]_vars

\* the value has a JSON text that parses back to it
JsonRepresentable(v) == v.t \in {"null", "string", "array"}

\* what the claim expects of the last get, given the last set of its key
RoundTripExpected(lastSet, got) ==
    IF got.at < lastSet.at + lastSet.ttl THEN got.value = lastSet.value
    ELSE got.value = JsNull

\* C14 (as claimed): after set(k, v, ttl), a get(k) before ttl has elapsed
\* returns v, and a get(k) once ttl has elapsed returns null, for every value.
C14_RoundTripEveryValue ==
    (creq.got.any /\ creq.set[creq.got.key].any)
        => RoundTripExpected(creq.set[creq.got.key], creq.got)

\* C14 (amended): the same, for a value that JSON can represent, when Redis
\* was reachable at the set and at the get.
C14_RoundTripJsonValueReachableStore ==
    (/\ creq.got.any /\ creq.set[creq.got.key].any
     /\ creq.got.up /\ creq.set[creq.got.key].up
     /\ JsonRepresentable(creq.set[creq.got.key].value))
        => RoundTripExpected(creq.set[creq.got.key], creq.got)

C14_Witness ==
    /\ creq.got.any /\ creq.got.up
    /\ creq.set[creq.got.key].any /\ creq.set[creq.got.key].up
    /\ creq.set[creq.got.key].value = JsArray(<<1, 2>>)
    /\ creq.got.value = JsArray(<<1, 2>>)
    /\ creq.got.at > creq.set[creq.got.key].at
    /\ \E k \in ProbeKeys : /\ creq.set[k].any /\ creq.set[k].up
                             /\ creq.set[k].at + creq.set[k].ttl <= now
                             /\ k \notin DOMAIN cache

-----------------------------------------------------------------------------
(* Event ingestion against an article that does not exist                  *)

\* C15: a createEvent whose articleId matches no Article ends in an error and
\* leaves the UserEvent rows as they were; no UserEvent row ever names an
\* article that does not exist.
C15_UnknownArticleRejectedNoRow ==
    /\ []((ereq.outcome # "none" /\ ereq.articleId \notin DOMAIN articles)
            => ereq.outcome = "error")
    /\ [][(ereq' # ereq /\ ereq'.articleId \notin DOMAIN articles) => events' = events]_vars
    /\ [](\A i \in 1..Len(events) : events[i].articleId \in DOMAIN articles)

C15_Witness ==
    /\ ereq = [outcome |-> "error", articleId |-> 9]
    /\ Len(events) = 1
    /\ 9 \notin DOMAIN articles

-----------------------------------------------------------------------------
(* Trending requests from neighbouring coordinates around zero latitude    *)

\* latitudes from -0.006 to 0.014 degrees, one longitude
CellCoords == {<<-6, 12>>, <<-4, 12>>, <<-1, 12>>, <<1, 12>>, <<4, 12>>, <<6, 12>>, <<14, 12>>}

CellLimits == {2}

InitCell == InitWith(TrendArticles)

NextCell ==
    \/ \E d \in TrendSteps : Advance(d)
    \/ \E c \in CellCoords, l \in CellLimits : GetTrendingCall(1, c[1], c[2], l)
    \/ TrendingQuery(1)
    \/ TrendingStore(1)
    \/ TrendingReturn(1)

SpecCell == InitCell /\ [][NextCell]_vars

\* the number a toFixed string denotes, in hundredths: "-0.00" and "0.00" are
\* both zero
FixedValue(f) == IF f.neg THEN 0 - f.digits ELSE f.digits

\* the coordinate rounded to 2 decimals, as a number of hundredths
RoundedValue(x) == FixedValue(ToFixed(x, GeoPrecision))

\* a live trending entry written for coordinates that round to the same
\* 2-decimal latitude and longitude as (lat, lon)
SameCellEntry(c, lat, lon) ==
    \E k \in DOMAIN c :
        /\ k[1] = "trending"
        /\ FixedValue(k[2][1]) = RoundedValue(lat)
        /\ FixedValue(k[2][2]) = RoundedValue(lon)

\* C16: coordinates that round to the same 2-decimal latitude and longitude
\* (zero reached from either side included) get the same key, so a getTrending
\* call never misses while an entry of its own cell is in the cache.
C16_SameCellSameKey ==
    treq[1].pc = "miss" => ~SameCellEntry(cache, treq[1].lat, treq[1].lon)

-----------------------------------------------------------------------------
(* The same query text from two coordinates of one grid cell               *)

GridTexts == {<<"T", "a", "x">>}

\* 0.006 and 0.014 degrees of latitude both round to 0.01
GridCoords == {<<Num(6), Num(12)>>, <<Num(14), Num(12)>>}

GridAnalyses == {Analysis(<< <<"T", "A", "X">> >>), Analysis(<<>>)}

InitGrid == InitWith(QueryArticles)

NextGrid ==
    \/ \E q \in GridTexts, c \in GridCoords : QueryCall(q, c[1], c[2])
    \/ \E a \in GridAnalyses : AnalyzeReturns(a)
    \/ AnalyzeFails
    \/ KeywordSearch
    \/ FallbackSearch
    \/ SummaryGet
    \/ \E t \in SummaryTexts : SummarizeReturns(t)
    \/ SummarizeFails
    \/ SummarySet
    \/ QueryStore
    \/ QueryReturn

SpecGrid == InitGrid /\ [][NextGrid]_vars

\* C17: a query whose text was just answered and cached for other coordinates
\* of the same grid cell is served from the cache.
C17_SameCellQueryServedFromCache ==
    qreq.afterSameCell => (qreq.hit /\ qreq.oracleCalls = 0)

------------------------------------------------------------------------

-----------------------------------------------------------------------------
(* Progress of a query request while the language oracle may stay silent   *)

\* keywords that each match an article: the keyword search finds rows and the
\* full-text fallback is not taken
AwaitAnalyses ==
    {Analysis(<< <<"T", "A", "X">> >>),
     Analysis(<< <<"f", "l", "o", "o", "d">> >>),
     Analysis(<< <<"t", "a", "x">>, <<"F", "l", "o", "o", "d">> >>)}

InitAwait == InitWith(TrendArticles)

NextAwait ==
    \/ \E q \in GridTexts, c \in GridCoords : QueryCall(q, c[1], c[2])
    \/ \E a \in AwaitAnalyses : AnalyzeReturns(a)
    \/ AnalyzeFails
    \/ KeywordSearch
    \/ SummaryGet
    \/ \E t \in SummaryTexts : SummarizeReturns(t)
    \/ SummarizeFails
    \/ SummarySet
    \/ QueryStore
    \/ QueryReturn

\* the steps the service takes by itself: the store and the cache answer or
\* fail, and the continuation of an await runs once its promise settles
ServiceSteps ==
    \/ KeywordSearch
    \/ SummaryGet
    \/ SummarySet
    \/ QueryStore

\* model.generateContent(prompt) is awaited with no timer and no abort
\* signal: nothing in the service makes an oracle call settle, so no
\* fairness is stated for AnalyzeReturns, AnalyzeFails, SummarizeReturns and
\* SummarizeFails
SpecAwait == InitAwait /\ [][NextAwait]_vars /\ WF_vars(ServiceSteps)

\* C18: every query request in progress eventually completes, with a result
\* or an error, also when an oracle call is never answered.
C18_EveryQueryCompletes ==
    (qreq.pc \notin {"idle", "done"}) ~> (qreq.pc = "done")

-----------------------------------------------------------------------------
(* Ranking by blended score, with an article whose location is not set     *)

\* the "Article" rows after createMany and before the UPDATE that fills
\* "location": article 2 has latitude and longitude but a NULL location;
\* article 3 lies 0.394 degrees (about 44 km) north of the user
RankArticles ==
    (1 :> ArticleRow(<<"F", "l", "o", "o", "d">>, <<"r", "i", "v", "e", "r">>, 90, 5, 12)) @@
    (2 :> [ArticleRow(<<"T", "a", "x">>, <<"b", "u", "d", "g", "e", "t">>, 70, 15, 12)
             EXCEPT !.location = NoLocation]) @@
    (3 :> ArticleRow(<<"C", "u", "p">>, <<"f", "i", "n", "a", "l">>, 50, 400, 12))

RankCoords == {<<6, 12>>}
RankLimits == {1, 3}
RankSteps == {300}

UserEvent(eventType, articleId) ==
    [eventType |-> eventType, articleId |-> articleId, userId |-> "u1", createdAt |-> 0]

\* the "UserEvent" rows at the start: none, a click on the near article, or
\* a click on the far article and a view of the near one
RankEventLogs ==
    {<<>>, <<UserEvent("click", 1)>>, <<UserEvent("click", 3), UserEvent("view", 1)>>}

\* the events are in place and the view has been refreshed over them
InitRank ==
    \E evs \in RankEventLogs :
        /\ now = 0
        /\ articles = RankArticles
        /\ events = evs
        /\ view = TrendingArticlesQuery(RankArticles, evs, 0)
        /\ viewMeta = [epoch |-> 0, at |-> 0, nev |-> Len(evs)]
        /\ prevSnap = [rows |-> TrendingArticlesQuery(RankArticles, evs, 0), at |-> 0,
                       nev |-> Len(evs)]
        /\ refresh = IdleRefresh
        /\ cron = [last |-> 0, outcome |-> "succeeded"]
        /\ cache = <<>>
        /\ redisUp = TRUE
        /\ treq = [p \in Procs |-> IdleTrending]
        /\ qreq = IdleQuery
        /\ ereq = [outcome |-> "none", articleId |-> 0]
        /\ served = {}
        /\ creq = NoProviderCalls

NextRank ==
    \/ \E d \in RankSteps : Advance(d)
    \/ CronTick
    \/ RefreshApply
    \/ RefreshCommit
    \/ \E c \in RankCoords, l \in RankLimits : GetTrendingCall(1, c[1], c[2], l)
    \/ TrendingQuery(1)
    \/ TrendingStore(1)
    \/ TrendingReturn(1)

SpecRank == InitRank /\ [][NextRank]_vars

\* the view row of an article in the snapshot a request has read
SeenRow(req, id) == CHOOSE r \in req.seen : r.id = id

\* the blended score of an article for the request, NULL without a location
BlendedFor(req, id) == BlendedScore(SeenRow(req, id), articles, req.lat, req.lon)

\* the smaller of two numbers
Min(a, b) == IF a < b THEN a ELSE b

C20_UnlocatedNeverAhead ==
    \A p \in Procs :
        treq[p].pc = "fetched" =>
            \A i \in 1..Len(treq[p].rows) : \A r \in treq[p].seen :
                (/\ articles[treq[p].rows[i]].location.isNull
                 /\ ~articles[r.id].location.isNull
                 /\ r.trending_score > 0)
                    => \E j \in 1..(i - 1) : treq[p].rows[j] = r.id

-----------------------------------------------------------------------------
(* Order of the steps of processNaturalLanguageQuery                       *)

\* the request is past both searches and has articles, or has ended normally
\* on a miss
PastSearches(req) ==
    \/ req.pc \in {"summaryGet", "summarize", "summarySet", "store"}
    \/ (req.pc = "done" /\ req.status = "ok" /\ ~req.hit)

\* C21: no search runs before the oracle has answered; the keyword search runs
\* exactly when keywords were extracted; the full-text search runs exactly
\* when the keyword search brought no article (not run, or zero rows), and
\* never after a keyword search that found one.
C21_OracleThenKeywordsElseFullText ==
    /\ (qreq.keywordSearches + qreq.textSearches > 0)
           => (qreq.oracleCalls = 1 /\ qreq.analysed /\ ~qreq.oracleFailed)
    /\ qreq.keywordSearches <= 1 /\ qreq.textSearches <= 1
    /\ qreq.keywordSearches = 1 => Len(qreq.keywords) > 0
    /\ (qreq.analysed /\ Len(qreq.keywords) > 0 /\ qreq.pc # "keywords")
           => qreq.keywordSearches = 1
    /\ qreq.textSearches = 1 => qreq.keywordRows = 0
    /\ qreq.keywordRows > 0 => qreq.textSearches = 0
    /\ (PastSearches(qreq) /\ qreq.keywordRows = 0) => qreq.textSearches = 1

\* the keyword search ran and found nothing, the full-text search then found
\* articles
C21_Witness ==
    /\ qreq.pc = "done" /\ qreq.status = "ok" /\ ~qreq.hit
    /\ qreq.oracleCalls = 1
    /\ qreq.keywordSearches = 1 /\ qreq.keywordRows = 0
    /\ qreq.textSearches = 1 /\ qreq.textRows > 0
    /\ Len(qreq.result) > 0

-----------------------------------------------------------------------------
(* Cache first, then compute, store and return                             *)

\* trending and query requests side by side, Redis reachable throughout
InitFlow == InitWith(TrendArticles)

NextFlow ==
    \/ \E c \in OutageCoords, l \in OutageLimits : GetTrendingCall(1, c[1], c[2], l)
    \/ TrendingQuery(1)
    \/ TrendingStore(1)
    \/ TrendingReturn(1)
    \/ \E q \in OutageTexts : QueryCall(q, Undefined, Undefined)
    \/ \E a \in OutageAnalyses : AnalyzeReturns(a)
    \/ AnalyzeFails
    \/ KeywordSearch
    \/ FallbackSearch
    \/ SummaryGet
    \/ \E t \in SummaryTexts : SummarizeReturns(t)
    \/ SummarizeFails
    \/ SummarySet
    \/ QueryStore
    \/ QueryReturn

SpecFlow == InitFlow /\ [][NextFlow]_vars

\* the value stored under a key, as get would parse it
StoredValue(c, key) == JSONParse(c[key].value)

\* C22: a request answered from the cache returns the stored value and has run
\* no store query and no oracle call; a request that missed and ended with a
\* non-empty result has, by the time it returns, written that very result
\* under its own key.
C22_HitSkipsWorkMissStoresThenReturns ==
    /\ \A p \in Procs :
          /\ treq[p].hit =>
                /\ treq[p].pc = "done"
                /\ treq[p].seen = {} /\ treq[p].rows = <<>>
                /\ TrendingKey(treq[p].lat, treq[p].lon) \in DOMAIN cache
                /\ JsArray(treq[p].result)
                      = StoredValue(cache, TrendingKey(treq[p].lat, treq[p].lon))
          /\ (treq[p].pc = "done" /\ ~treq[p].hit
                 /\ Len(treq[p].result) > 0) =>
                /\ TrendingKey(treq[p].lat, treq[p].lon) \in DOMAIN cache
                /\ StoredValue(cache, TrendingKey(treq[p].lat, treq[p].lon))
                      = JsArray(treq[p].result)
    /\ qreq.hit =>
          /\ qreq.pc = "done" /\ qreq.status = "ok"
          /\ qreq.oracleCalls = 0 /\ qreq.summarizeCalls = 0
          /\ qreq.keywordSearches = 0 /\ qreq.textSearches = 0
          /\ QueryKey(qreq.query, qreq.lat, qreq.lon) \in DOMAIN cache
          /\ JsArray(qreq.result) = StoredValue(cache, QueryKey(qreq.query, qreq.lat, qreq.lon))
    /\ (qreq.pc = "done" /\ qreq.status = "ok" /\ ~qreq.hit /\ Len(qreq.result) > 0) =>
          /\ qreq.queryWrites = 1
          /\ QueryKey(qreq.query, qreq.lat, qreq.lon) \in DOMAIN cache
          /\ StoredValue(cache, QueryKey(qreq.query, qreq.lat, qreq.lon)) = JsArray(qreq.result)

\* a trending request that missed, computed and stored its list, next to a
\* query request served from the entry an earlier query request stored
C22_Witness ==
    /\ treq[1].pc = "done" /\ ~treq[1].hit /\ Len(treq[1].result) > 0
    /\ TrendingKey(treq[1].lat, treq[1].lon) \in DOMAIN cache
    /\ qreq.pc = "done" /\ qreq.hit /\ Len(qreq.result) > 0

-----------------------------------------------------------------------------
(* TTL of every cache entry                                                *)

\* C23: every entry in the cache carries the TTL of its use case: 300 seconds
\* under a trending key, 3600 under a query key, 86400 under a summary key;
\* there is no other kind of key and no entry without a TTL.
C23_TTLByUseCase ==
    \A k \in DOMAIN cache :
        /\ k[1] \in {"trending", "query:final-v9", "summary"}
        /\ k[1] = "trending" => cache[k].ttl = 300
        /\ k[1] = "query:final-v9" => cache[k].ttl = 3600
        /\ k[1] = "summary" => cache[k].ttl = 86400
        /\ cache[k].expiresAt = cache[k].tag.at + cache[k].ttl

\* one entry of each kind is in the cache
C23_Witness ==
    /\ \E k \in DOMAIN cache : k[1] = "trending"
    /\ \E k \in DOMAIN cache : k[1] = "query:final-v9"
    /\ \E k \in DOMAIN cache : k[1] = "summary"

-----------------------------------------------------------------------------
(* UserEvent is append-only                                                *)

\* C24: whenever the UserEvent rows change, the step is one accepted
\* createEvent call: exactly one row is added at the end, it carries the
\* call's article, and every earlier row stays as it was; an accepted call
\* always adds its row, also when an identical row is already there.
C24_OneRowPerAcceptedCallAppendOnly ==
    /\ [][events' # events =>
            /\ Len(events') = Len(events) + 1
            /\ SubSeq(events', 1, Len(events)) = events
            /\ ereq'.outcome = "logged"
            /\ events'[Len(events')].articleId = ereq'.articleId
            /\ events'[Len(events')].createdAt = now]_vars
    /\ [][(ereq'.outcome = "logged" /\ events' = events) => ereq' = ereq]_vars

\* two identical accepted calls (same kind, article, user and instant) have
\* left two rows
C24_Witness ==
    /\ Len(events) = 2
    /\ events[1] = events[2]
    /\ ereq.outcome = "logged"

-----------------------------------------------------------------------------
(* What a refresh counts                                                   *)

\* the events of article a among the first nev rows, of one kind, created in
\* the 24 hours before t
CountedEvents(a, kind, nev, t) ==
    {i \in 1..nev : /\ events[i].articleId = a /\ events[i].eventType = kind
                    /\ events[i].createdAt > t - 86400 /\ events[i].createdAt <= t}

\* 1.5 for each click and 1.0 for each view, scale 10^3
UndecayedWeight(a, nev, t) ==
    1500 * Cardinality(CountedEvents(a, "click", nev, t))
        + 1000 * Cardinality(CountedEvents(a, "view", nev, t))

\* C25: after each refresh an article's trending_score is positive exactly
\* when it has an event created in the 24 hours before the refresh; the score
\* is at most the undecayed weight of those events (1.5 per click, 1.0 per
\* view) and at least that weight decayed by the full 24 hours, so an older
\* event adds nothing.
C25_ScoreCountsOnlyTheWindow ==
    \A a \in DOMAIN articles :
        /\ ScoreIn(view, a) > 0 <=> UndecayedWeight(a, viewMeta.nev, viewMeta.at) > 0
        /\ ScoreIn(view, a) <= UndecayedWeight(a, viewMeta.nev, viewMeta.at)
        /\ 100 * ScoreIn(view, a) >= 13 * UndecayedWeight(a, viewMeta.nev, viewMeta.at)

\* an article with one event that has left the window and one still in it:
\* only the second counts
C25_Witness ==
    /\ viewMeta.epoch >= 1
    /\ \E a \in DOMAIN articles :
          /\ \E i \in 1..viewMeta.nev : /\ events[i].articleId = a
                                         /\ events[i].createdAt <= viewMeta.at - 86400
          /\ Cardinality(CountedEvents(a, "click", viewMeta.nev, viewMeta.at)
                            \cup CountedEvents(a, "view", viewMeta.nev, viewMeta.at)) = 1
          /\ ScoreIn(view, a) > 0
          /\ ScoreIn(view, a) < UndecayedWeight(a, viewMeta.nev, viewMeta.at)

-----------------------------------------------------------------------------
(* Cache entries against events and refreshes                              *)

FrameTexts == {<<"T", "a", "x">>}
FrameAnalyses == {Analysis(<< <<"T", "A", "X">> >>)}
FrameSteps == {150}

InitFrame == InitWith(TrendArticles)

\* the three operations of the service, the clock and the refresh job
NextFrame ==
    \/ \E d \in FrameSteps : Advance(d)
    \/ \E a \in {2} : CreateEvent("click", a, "u1")
    \/ CronTick
    \/ RefreshApply
    \/ RefreshCommit
    \/ RefreshFail
    \/ \E c \in OutageCoords, l \in OutageLimits : GetTrendingCall(1, c[1], c[2], l)
    \/ TrendingQuery(1)
    \/ TrendingStore(1)
    \/ TrendingReturn(1)
    \/ \E q \in FrameTexts : QueryCall(q, Undefined, Undefined)
    \/ \E a \in FrameAnalyses : AnalyzeReturns(a)
    \/ KeywordSearch
    \/ SummaryGet
    \/ \E t \in SummaryTexts : SummarizeReturns(t)
    \/ SummarySet
    \/ QueryStore
    \/ QueryReturn

SpecFrame == InitFrame /\ [][NextFrame]_vars

\* the step is the cache write of a request that missed on key k
MissStores(k) ==
    \/ \E p \in Procs : /\ treq[p].pc = "fetched" /\ ~treq[p].hit /\ treq'[p].pc = "done"
                         /\ k = TrendingKey(treq[p].lat, treq[p].lon)
    \/ /\ qreq.pc = "store" /\ ~qreq.hit /\ qreq'.pc = "done"
       /\ k = QueryKey(qreq.query, qreq.lat, qreq.lon)
    \/ /\ qreq.pc = "summarySet" /\ qreq'.pc # "summarySet"
       /\ k = SummaryKey(NextArticle(qreq))

\* C26: a step that records an event or moves the refresh leaves the cache as
\* it is; a step of getTrending, processNaturalLanguageQuery or createEvent
\* leaves the TrendingArticles snapshot and the refresh job as they are; an
\* entry leaves the cache only by the clock passing its expiry, and changes
\* only by the write of a request that missed on its key.
C26_NoInvalidation ==
    [][/\ (events' # events \/ refresh' # refresh \/ view' # view \/ viewMeta' # viewMeta)
           => cache' = cache
       /\ (treq' # treq \/ qreq' # qreq \/ ereq' # ereq \/ events' # events)
           => /\ view' = view /\ viewMeta' = viewMeta
              /\ refresh' = refresh /\ cron' = cron
       /\ \A k \in DOMAIN cache :
             /\ k \notin DOMAIN cache' => (now' > now /\ cache[k].expiresAt <= now')
             /\ (k \in DOMAIN cache' /\ cache'[k] # cache[k]) => MissStores(k)]_vars

\* a trending list cached from the snapshot before the event and before the
\* latest refresh is still in the cache, and has been overwritten by nobody
C26_Witness ==
    /\ Len(events) >= 1
    /\ viewMeta.epoch >= 1 /\ viewMeta.nev >= 1
    /\ \E k \in DOMAIN cache :
          /\ k[1] = "trending"
          /\ cache[k].tag.epoch < viewMeta.epoch
          /\ cache[k].tag.at < events[1].createdAt
    /\ \E k \in DOMAIN cache : k[1] = "query:final-v9"

-----------------------------------------------------------------------------
(* A failed summarization is cached like a summary                         *)

\* the articles this request has finished enriching
EnrichedIds(req) == {req.enriched[i].id : i \in 1..Len(req.enriched)}

\* the placeholder is what the cache holds for the article
PlaceholderCached(c, id) ==
    /\ SummaryKey(id) \in DOMAIN c
    /\ StoredValue(c, SummaryKey(id)) = JsString(SummaryNotAvailable)

\* C27: once a request has enriched an article whose summarization failed,
\* summary:<id> holds the placeholder with the 24-hour TTL; and a lookup that
\* finds the placeholder puts it in the response without calling the oracle.
C27_FailedSummaryIsCached ==
    /\ [](\A id \in qreq.failed \cap EnrichedIds(qreq) :
            /\ PlaceholderCached(cache, id)
            /\ cache[SummaryKey(id)].ttl = 86400
            /\ cache[SummaryKey(id)].expiresAt = cache[SummaryKey(id)].tag.at + 86400)
    /\ [][(qreq.pc = "summaryGet" /\ qreq' # qreq
             /\ PlaceholderCached(cache, NextArticle(qreq)))
            => /\ qreq'.summarizeCalls = qreq.summarizeCalls
               /\ qreq'.pc \in {"summaryGet", "store"}
               /\ qreq'.enriched = Append(qreq.enriched,
                                           [id |-> NextArticle(qreq),
                                            llm_summary |-> SummaryNotAvailable])
               /\ cache' = cache]_vars

\* a later request that missed the query cache ends with the placeholder for
\* an article, no summarization call and no failure of its own
C27_Witness ==
    /\ qreq.pc = "done" /\ qreq.status = "ok" /\ ~qreq.hit
    /\ qreq.summarizeCalls = 0 /\ qreq.failed = {}
    /\ \E i \in 1..Len(qreq.result) : qreq.result[i].llm_summary = SummaryNotAvailable

-----------------------------------------------------------------------------
(* The same question asked from two places                                 *)

PlaceTexts == {<<"T", "a", "x">>, <<"t", "a", "x", "e", "s">>}

\* 0.006 and 0.014 degrees of latitude: two places one kilometre apart
PlaceCoords == {<<Num(6), Num(12)>>, <<Num(14), Num(12)>>}

\* an oracle that answers a question the same way each time it is asked: a
\* keyword for one question, none for the other
OracleAnswer(query) ==
    IF query = <<"T", "a", "x">> THEN Analysis(<< <<"T", "A", "X">> >>) ELSE Analysis(<<>>)

InitPlace == InitWith(QueryArticles)

NextPlace ==
    \/ \E q \in PlaceTexts, c \in PlaceCoords : QueryCall(q, c[1], c[2])
    \/ AnalyzeReturns(OracleAnswer(qreq.query))
    \/ KeywordSearch
    \/ FallbackSearch
    \/ SummaryGet
    \/ \E t \in SummaryTexts : SummarizeReturns(t)
    \/ SummarySet
    \/ QueryStore
    \/ QueryReturn

SpecPlace == InitPlace /\ [][NextPlace]_vars

\* the cached query results for one query text, whatever the coordinates
QueryEntries(c, query) ==
    {k \in DOMAIN c : k[1] = "query:final-v9" /\ k[2][1] = query}

\* C28: with one article store and an oracle that answers a question the same
\* way each time, a request that missed the cache returns the article list
\* that every request with the same query text and other coordinates
\* returned and stored: the list does not depend on lat or lon.
C28_MissResultIgnoresCoordinates ==
    /\ \A q \in PlaceTexts : \A k1, k2 \in QueryEntries(cache, q) :
          StoredValue(cache, k1) = StoredValue(cache, k2)
    /\ (qreq.pc = "done" /\ qreq.status = "ok" /\ ~qreq.hit)
          => \A k \in QueryEntries(cache, qreq.query) :
                StoredValue(cache, k).items = qreq.result

\* a request from the second place has missed and returned its articles while
\* the result of the first place is in the cache under another key
C28_Witness ==
    /\ qreq.pc = "done" /\ qreq.status = "ok" /\ ~qreq.hit /\ Len(qreq.result) > 0
    /\ \E k \in QueryEntries(cache, qreq.query) :
          /\ k # QueryKey(qreq.query, qreq.lat, qreq.lon)
          /\ k[2][2] # qreq.lat

-----------------------------------------------------------------------------
(* Two trending requests at once in one geo bucket                         *)

\* 0.006 and 0.014 degrees of latitude: both in the bucket 0.01:0.01
RaceCoords == {<<6, 12>>, <<14, 12>>}
RaceLimits == {2}
RaceSteps == {150}

\* a click on article 2 was logged after the last refresh: the committed
\* rows do not count it yet
InitRace ==
    /\ now = 0
    /\ articles = TrendArticles
    /\ events = <<UserEvent("click", 2)>>
    /\ view = TrendingArticlesQuery(TrendArticles, <<>>, 0)
    /\ viewMeta = [epoch |-> 0, at |-> 0, nev |-> 0]
    /\ prevSnap = [rows |-> TrendingArticlesQuery(TrendArticles, <<>>, 0), at |-> 0, nev |-> 0]
    /\ refresh = IdleRefresh
    /\ cron = [last |-> 0, outcome |-> "succeeded"]
    /\ cache = <<>>
    /\ redisUp = TRUE
    /\ treq = [p \in Procs |-> IdleTrending]
    /\ qreq = IdleQuery
    /\ ereq = [outcome |-> "none", articleId |-> 0]
    /\ served = {}
    /\ creq = NoProviderCalls

\* the async functions of two requests interleave at every await; a refresh
\* and the expiry of the entry may fall between them
NextRace ==
    \/ \E d \in RaceSteps : Advance(d)
    \/ CronTick
    \/ RefreshApply
    \/ RefreshCommit
    \/ \E p \in Procs, c \in RaceCoords, l \in RaceLimits : GetTrendingCall(p, c[1], c[2], l)
    \/ \E p \in Procs : TrendingQuery(p)
    \/ \E p \in Procs : TrendingStore(p)
    \/ \E p \in Procs : TrendingReturn(p)

SpecRace == InitRace /\ [][NextRace]_vars

\* C29: when requests of one geo bucket that missed the cache interleave, each
\* write puts the writer's whole list under trending:<bucket>, so the entry is
\* at every moment the list of the last writer, and a request that missed
\* returns the list it computed itself.
C29_LastWriterWinsEachReturnsOwn ==
    /\ [][\A p \in Procs :
            (treq[p].pc = "fetched" /\ treq'[p].pc = "done")
            => /\ TrendingKey(treq[p].lat, treq[p].lon) \in DOMAIN cache'
               /\ StoredValue(cache', TrendingKey(treq[p].lat, treq[p].lon))
                    = JsArray(treq[p].rows)
               /\ treq'[p].result = treq[p].rows]_vars
    /\ [][(cache' # cache /\ now' = now)
            => \E p \in Procs : treq[p].pc = "fetched" /\ treq'[p].pc = "done"]_vars
    /\ [](\A p \in Procs :
            (treq[p].pc = "done" /\ ~treq[p].hit) => treq[p].result = treq[p].rows)

\* both requests missed, computed different lists and returned them; the
\* entry is one of the two lists, whole
C29_Witness ==
    /\ \A p \in Procs : treq[p].pc = "done" /\ ~treq[p].hit
    /\ TrendingKey(treq[1].lat, treq[1].lon) = TrendingKey(treq[2].lat, treq[2].lon)
    /\ treq[1].lat # treq[2].lat
    /\ treq[1].limit = treq[2].limit
    /\ treq[1].result # treq[2].result
    /\ StoredValue(cache, TrendingKey(treq[1].lat, treq[1].lon)).items = treq[2].result

-----------------------------------------------------------------------------
(* An event reaches the trending results                                   *)

\* one request at a time, in the bucket 0.01:0.01 or in the bucket 0.40:0.01
LiveCoords == {<<6, 12>>, <<400, 12>>}
LiveLimits == {2}
LiveSteps == {150}

\* the scheduled minute has come and the job has not been started for it
CronDue == now % CronPeriod = 0 /\ cron.last < now

\* pg_cron starts the job at every scheduled minute: the clock does not pass
\* one with the job still to start
Tick(d) == ~CronDue /\ Advance(d)

\* past the last clock value that is counted, time still passes: the entries
\* written so far run out of their 300 seconds
LateTick ==
    /\ refresh.pc = "idle"
    /\ \A d \in LiveSteps : now + d > d * MaxTicks
    /\ cache' = Expire(cache, now + TrendingTTL)
    /\ UNCHANGED <<now, dbVars, redisUp, treq, qreq, ereq, served, creq>>

\* a click on article 2 was accepted after the last refresh
InitLive == InitRace

NextLive ==
    \/ \E d \in LiveSteps : Tick(d)
    \/ LateTick
    \/ CronTick
    \/ RefreshApply
    \/ RefreshCommit
    \/ \E c \in LiveCoords, l \in LiveLimits : GetTrendingCall(1, c[1], c[2], l)
    \/ TrendingQuery(1)
    \/ TrendingStore(1)
    \/ TrendingReturn(1)

\* the clock and the expiry of entries
TimePasses == (\E d \in LiveSteps : Tick(d)) \/ LateTick

\* the refresh job, started on schedule and run to its COMMIT
RefreshRuns == CronTick \/ RefreshApply \/ RefreshCommit

\* a request that has its list sends the response; nothing is assumed about
\* how long the store and the cache take to answer it
SpecLive ==
    /\ InitLive /\ [][NextLive]_vars
    /\ WF_vars(TimePasses) /\ WF_vars(RefreshRuns) /\ WF_vars(TrendingReturn(1))

\* the number of events counted by the snapshot of an epoch: the current
\* one, the one before it, or an older one (taken as counting none)
CountedBy(epoch) ==
    IF epoch = viewMeta.epoch THEN viewMeta.nev
    ELSE IF epoch = viewMeta.epoch - 1 THEN prevSnap.nev
    ELSE 0

\* every accepted event is counted by the committed rows, by the snapshot
\* behind every cached trending list and behind the list just returned
EventsReflected ==
    /\ viewMeta.nev = Len(events)
    /\ \A k \in DOMAIN cache :
          k[1] = "trending" => CountedBy(cache[k].tag.epoch) = Len(events)
    /\ treq[1].pc = "done" => CountedBy(treq[1].resEpoch) = Len(events)

\* C30: with the clock, the refresh job and the sending of responses
\* scheduled fairly, from some moment on every trending list served, from
\* the cache or computed, in every geo bucket counts the accepted event: a
\* list computed from an older snapshot is not served for ever.
C30_EventEventuallyReflected == <>[]EventsReflected

\* the refresh has counted the event, and a request is answered from a
\* cached list that was computed from the refreshed rows
C30_Witness ==
    /\ Len(events) = 1 /\ viewMeta.nev = 1
    /\ treq[1].pc = "done" /\ treq[1].hit
    /\ CountedBy(treq[1].resEpoch) = 1
    /\ \E k \in DOMAIN cache : k[1] = "trending" /\ CountedBy(cache[k].tag.epoch) = 1

====
